---- MODULE Spec2Model ----
(***************************************************************************)
(* A model of src/Simulator.py: the instruction-set simulator's codec,     *)
(* classifier, execution unit and run loop.                                *)
(*                                                                         *)
(* A Python string of '0'/'1' characters is a sequence over {0, 1}; any    *)
(* other character (a letter, say) is the element 2.  Python integers are  *)
(* unbounded while the model checker's are 32-bit, so an arithmetic result *)
(* that can leave that range is held as a pair <<hi, lo>> standing for     *)
(* hi * 65536 + lo (see Py, PyAdd, PySub).                                 *)
(***************************************************************************)
EXTENDS Integers, Sequences, FiniteSets, TLC

VARIABLES
    r,             \* the register file: x0..x31 -> 32-character string
    Memory,        \* data memory: word index -> 32-character string
    Instructions,  \* the program read from the current input file
    PC,            \* AutomatedTesting's local PC
    Halt,          \* the halt flag of the last step
    results,       \* the register dumps recorded so far in this run
    memTrace,      \* the memory trace of the last finished run
    fileIdx,       \* AutomatedTesting's loop variable i
    loc,           \* where AutomatedTesting is: "for", "while", "raised"
    codec          \* a codec call in isolation: its arguments and results

vars ==
    <<r, Memory, Instructions, PC, Halt, results, memTrace, fileIdx, loc,
      codec>>

-----------------------------------------------------------------------------
(* Program constants *)

MemStart == 65536
MemSize == 32
StackPointerInit == 380
WordBits == 32
NumFiles == 10

RegIdx == 0 .. 31

RType == { <<0,1,1,0,0,1,1>> }
ITypeLw == <<0,0,0,0,0,1,1>>
ITypeAddi == <<0,0,1,0,0,1,1>>
ITypeJalr == <<1,1,0,0,1,1,1>>
IType == { ITypeLw, ITypeAddi, ITypeJalr }
SType == { <<0,1,0,0,0,1,1>> }
BType == { <<1,1,0,0,0,1,1>> }
JType == { <<1,1,0,1,1,1,1>> }

HaltInst == [i \in 1 .. 32 |-> IF i \in {26, 27, 31, 32} THEN 1 ELSE 0]

Zeros(n) == [i \in 1 .. n |-> 0]

-----------------------------------------------------------------------------
(* BitField codec *)

\* A Python int as the pair <<hi, lo>> with value hi * 65536 + lo.
Py(n) == << n \div 65536, n % 65536 >>
PyAdd(p, q) == << p[1] + q[1], p[2] + q[2] >>
PySub(p, q) == << p[1] - q[1], p[2] - q[2] >>
PyNeg(p) == (p[1] + (p[2] \div 65536)) < 0

\* f"{n:0{w}b}" for 0 <= n < 2^w, w <= 16.
Digits(n, w) == [i \in 1 .. w |-> (n \div (2 ^ (w - i))) % 2]

\* int(s, 2) for a string of binary digits whose value is below 2^31.
RECURSIVE Int2(_)
Int2(s) == IF Len(s) = 0 THEN 0
           ELSE 2 * Int2(SubSeq(s, 1, Len(s) - 1)) + s[Len(s)]

\* int(s, 2) raises ValueError on any character that is not a binary digit.
IsBinary(s) == Len(s) > 0 /\ \A i \in 1 .. Len(s) : s[i] \in {0, 1}

\* ConvertToBinary(n, bits, flag): n & ((1 << bits) - 1) as bits digits,
\* after adding 1 << bits to a negative n when flag is set.
ConvertToBinary(p, bits, flag) ==
    LET q == IF flag /\ PyNeg(p)
             THEN IF bits <= 16 THEN << p[1], p[2] + 2 ^ bits >>
                  ELSE << p[1] + 2 ^ (bits - 16), p[2] >>
             ELSE p
        h == q[1] + (q[2] \div 65536)
        l == q[2] % 65536
    IN  IF bits <= 16 THEN Digits(l % (2 ^ bits), bits)
        ELSE Digits(h % (2 ^ (bits - 16)), bits - 16) \o Digits(l, 16)

\* BinaryToDecimal(bstr): int(bstr, 2) when the leading digit is 0, else
\* int(bstr, 2) - (1 << len(bstr)).  With a leading 1, int(bstr, 2) is
\* 2^(len-1) plus the value of the remaining digits, so the result is that
\* value minus 2^(len-1), subtracted here in two halves to stay in range.
\* Mutant: a leading 1 subtracts 1 << (len - 1), not 1 << len.
BinaryToDecimalHalfOffset(bstr) ==
    IF bstr[1] = 0 THEN Int2(bstr) ELSE Int2(SubSeq(bstr, 2, Len(bstr)))

BinaryToDecimal(bstr) ==
    IF bstr[1] = 0 THEN Int2(bstr)
    ELSE IF Len(bstr) = 1 THEN -1
    ELSE LET half == 2 ^ (Len(bstr) - 2)
         IN  (Int2(SubSeq(bstr, 2, Len(bstr))) - half) - half

-----------------------------------------------------------------------------
(* Instruction classifier *)

\* Mutant: the leading character of the opcode is not compared.
CheckTypeLowSixBits(Opcode) ==
    LET Same(T) == \E t \in T : SubSeq(t, 2, 7) = SubSeq(Opcode, 2, 7)
    IN  IF Same(RType) THEN "R"
        ELSE IF Same(IType) THEN "I"
        ELSE IF Same(SType) THEN "S"
        ELSE IF Same(BType) THEN "B"
        ELSE IF Same(JType) THEN "J"
        ELSE "invalid"

CheckType(Opcode) ==
    IF Opcode \in RType THEN "R"
    ELSE IF Opcode \in IType THEN "I"
    ELSE IF Opcode \in SType THEN "S"
    ELSE IF Opcode \in BType THEN "B"
    ELSE IF Opcode \in JType THEN "J"
    ELSE "invalid"

-----------------------------------------------------------------------------
(* Execution unit *)

\* a & b and a | b on Python ints in the signed 32-bit range: the digits of
\* the result's two's-complement pattern are those of the operands combined.
BitAnd(a, b) ==
    LET A == ConvertToBinary(Py(a), 32, FALSE)
        B == ConvertToBinary(Py(b), 32, FALSE)
    IN  BinaryToDecimal([i \in 1 .. 32 |-> IF A[i] = 1 /\ B[i] = 1 THEN 1 ELSE 0])

BitOr(a, b) ==
    LET A == ConvertToBinary(Py(a), 32, FALSE)
        B == ConvertToBinary(Py(b), 32, FALSE)
    IN  BinaryToDecimal([i \in 1 .. 32 |-> IF A[i] = 1 \/ B[i] = 1 THEN 1 ELSE 0])

\* Mutant: a logical shift, the vacated high bits are 0.
ShiftRightLogical(a, k) ==
    IF k = 0 THEN a
    ELSE IF a >= 0 THEN (IF k = 31 THEN 0 ELSE a \div (2 ^ k))
    ELSE IF k = 31 THEN 1
    ELSE ((a \div (2 ^ k)) + 2 ^ (31 - k)) + 2 ^ (31 - k)

\* a >> k on a Python int, 0 <= k <= 31: floor division by 2^k.
ShiftRight(a, k) ==
    IF k = 31 THEN (IF a < 0 THEN -1 ELSE 0) ELSE a \div (2 ^ k)

\* The outcomes of ExecuteInstruction: a ValueError, or (Halt, PC) with the
\* globals r and Memory as the call leaves them.
Raised(pc0, regs, mem) ==
    [raised |-> TRUE, Halt |-> FALSE, PC |-> pc0, r |-> regs, Memory |-> mem]
Returned(halt, pc1, regs, mem) ==
    [raised |-> FALSE, Halt |-> halt, PC |-> pc1, r |-> regs, Memory |-> mem]

\* 0 <= index < MemSize and Address % 4 == 0, for Address = rs1Val + immVal
\* and index = (Address - MemStart) // 4.  The first two conjuncts follow
\* from the others for a 12-bit immVal; they keep the sum in range.
Mapped(rs1Val, immVal) ==
    /\ rs1Val >= MemStart - 2048
    /\ rs1Val <= MemStart + 4 * MemSize + 2048
    /\ LET Address == rs1Val + immVal
           index == (Address - MemStart) \div 4
       IN  0 <= index /\ index < MemSize /\ Address % 4 = 0

MemIndex(rs1Val, immVal) == ((rs1Val + immVal) - MemStart) \div 4

\* Mutant: a result outside the signed 32-bit range is clamped to its end.
ExecRSaturating(BinaryInst, pc0, regs, mem) ==
    LET Funct7 == SubSeq(BinaryInst, 1, 7)
        funct3 == SubSeq(BinaryInst, 18, 20)
        rd == Int2(SubSeq(BinaryInst, 21, 25))
        rs1 == Int2(SubSeq(BinaryInst, 13, 17))
        rs2 == Int2(SubSeq(BinaryInst, 8, 12))
        rs1Val == BinaryToDecimal(regs[rs1])
        rs2Val == BinaryToDecimal(regs[rs2])
        x == IF funct3 = <<0,0,0>>
             THEN IF Funct7 = Zeros(7)
                  THEN PyAdd(Py(rs1Val), Py(rs2Val))
                  ELSE PySub(Py(rs1Val), Py(rs2Val))
             ELSE IF funct3 = <<0,1,0>>
             THEN (IF rs1Val < rs2Val THEN Py(1) ELSE Py(0))
             ELSE IF funct3 = <<1,0,1>>
             THEN Py(ShiftRight(rs1Val, rs2Val % 32))
             ELSE IF funct3 = <<1,1,1>>
             THEN Py(BitAnd(rs1Val, rs2Val))
             ELSE IF funct3 = <<1,1,0>>
             THEN Py(BitOr(rs1Val, rs2Val))
             ELSE Py(0)
        h == x[1] + (x[2] \div 65536)
        clamped == IF h > 32767 THEN << 32767, 65535 >>
                   ELSE IF h < -32768 THEN << -32768, 0 >>
                   ELSE x
    IN  Returned(FALSE, pc0 + 4,
                 [regs EXCEPT ![rd] = ConvertToBinary(clamped, 32, FALSE)], mem)

ExecR(BinaryInst, pc0, regs, mem) ==
    LET Funct7 == SubSeq(BinaryInst, 1, 7)
        funct3 == SubSeq(BinaryInst, 18, 20)
        rd == Int2(SubSeq(BinaryInst, 21, 25))
        rs1 == Int2(SubSeq(BinaryInst, 13, 17))
        rs2 == Int2(SubSeq(BinaryInst, 8, 12))
        rs1Val == BinaryToDecimal(regs[rs1])
        rs2Val == BinaryToDecimal(regs[rs2])
        x == IF funct3 = <<0,0,0>>
             THEN IF Funct7 = Zeros(7)
                  THEN PyAdd(Py(rs1Val), Py(rs2Val))
                  ELSE PySub(Py(rs1Val), Py(rs2Val))
             ELSE IF funct3 = <<0,1,0>>
             THEN (IF rs1Val < rs2Val THEN Py(1) ELSE Py(0))
             ELSE IF funct3 = <<1,0,1>>
             THEN Py(ShiftRight(rs1Val, rs2Val % 32))
             ELSE IF funct3 = <<1,1,1>>
             THEN Py(BitAnd(rs1Val, rs2Val))
             ELSE IF funct3 = <<1,1,0>>
             THEN Py(BitOr(rs1Val, rs2Val))
             ELSE Py(0)
    IN  Returned(FALSE, pc0 + 4,
                 [regs EXCEPT ![rd] = ConvertToBinary(x, 32, FALSE)], mem)

\* Mutant: addi leaves the program counter where it was.
ExecAddiNoAdvance(rd, rs1Val, immVal, pc0, regs, mem) ==
    Returned(FALSE, pc0,
             [regs EXCEPT ![rd] =
                 ConvertToBinary(PyAdd(Py(rs1Val), Py(immVal)), 32, FALSE)],
             mem)

\* Mutant: the 12-bit immediate is zero-extended, not sign-extended.
ExecAddiZeroExtended(rd, rs1Val, immVal, pc0, regs, mem) ==
    Returned(FALSE, pc0 + 4,
             [regs EXCEPT ![rd] =
                 ConvertToBinary(PyAdd(Py(rs1Val), Py(immVal % 4096)), 32, FALSE)],
             mem)

\* Mutant: x0 is never written.
ExecAddiPinnedZero(rd, rs1Val, immVal, pc0, regs, mem) ==
    Returned(FALSE, pc0 + 4,
             IF rd # 0
             THEN [regs EXCEPT ![rd] =
                      ConvertToBinary(PyAdd(Py(rs1Val), Py(immVal)), 32, FALSE)]
             ELSE regs,
             mem)

ExecAddi(rd, rs1Val, immVal, pc0, regs, mem) ==
    Returned(FALSE, pc0 + 4,
             [regs EXCEPT ![rd] =
                 ConvertToBinary(PyAdd(Py(rs1Val), Py(immVal)), 32, FALSE)],
             mem)

\* Mutant: the jump target keeps its low bit.
ExecJalrUnmasked(rd, rs1Val, immVal, pc0, regs, mem) ==
    Returned(FALSE, rs1Val + immVal,
             IF rd # 0
             THEN [regs EXCEPT ![rd] = ConvertToBinary(Py(pc0 + 4), 32, FALSE)]
             ELSE regs,
             mem)

\* (rs1Val + immVal) & ~1; the link is written first, from the old PC, and
\* rs1Val was read before it.  The sum is taken in the checker's integers.
ExecJalr(rd, rs1Val, immVal, pc0, regs, mem) ==
    LET target == rs1Val + immVal
    IN  Returned(FALSE, target - (target % 2),
                 IF rd # 0
                 THEN [regs EXCEPT ![rd] = ConvertToBinary(Py(pc0 + 4), 32, FALSE)]
                 ELSE regs,
                 mem)

\* Mutant: the address is not tested for 4-byte alignment.
ExecLwNoAlignment(rd, rs1Val, immVal, pc0, regs, mem) ==
    Returned(FALSE, pc0 + 4,
             [regs EXCEPT ![rd] =
                 IF /\ rs1Val >= MemStart - 2048
                    /\ rs1Val <= MemStart + 4 * MemSize + 2048
                    /\ 0 <= MemIndex(rs1Val, immVal)
                    /\ MemIndex(rs1Val, immVal) < MemSize
                 THEN mem[MemIndex(rs1Val, immVal)]
                 ELSE Zeros(32)],
             mem)

\* Mutant: the word after the addressed one is read.
ExecLwNextWord(rd, rs1Val, immVal, pc0, regs, mem) ==
    Returned(FALSE, pc0 + 4,
             [regs EXCEPT ![rd] = IF Mapped(rs1Val, immVal)
                                  THEN mem[(MemIndex(rs1Val, immVal) + 1) % MemSize]
                                  ELSE Zeros(32)],
             mem)

ExecLw(rd, rs1Val, immVal, pc0, regs, mem) ==
    Returned(FALSE, pc0 + 4,
             [regs EXCEPT ![rd] = IF Mapped(rs1Val, immVal)
                                  THEN mem[MemIndex(rs1Val, immVal)]
                                  ELSE Zeros(32)],
             mem)

\* Mutant: jalr reads rs1 after the link is written.
ExecIJalrReadsAfterLink(BinaryInst, pc0, regs, mem) ==
    LET immBin == SubSeq(BinaryInst, 1, 12)
        Opcode == SubSeq(BinaryInst, 26, 32)
        rd == Int2(SubSeq(BinaryInst, 21, 25))
        rs1 == Int2(SubSeq(BinaryInst, 13, 17))
    IN  IF ~IsBinary(immBin) THEN Raised(pc0, regs, mem)
        ELSE LET immVal == BinaryToDecimal(immBin)
                 rs1Val == BinaryToDecimal(regs[rs1])
                 linked == IF rd # 0 /\ rd = rs1 THEN pc0 + 4 ELSE rs1Val
             IN  IF Opcode = ITypeAddi
                 THEN ExecAddi(rd, rs1Val, immVal, pc0, regs, mem)
                 ELSE IF Opcode = ITypeJalr
                 THEN ExecJalr(rd, linked, immVal, pc0, regs, mem)
                 ELSE ExecLw(rd, rs1Val, immVal, pc0, regs, mem)

ExecI(BinaryInst, pc0, regs, mem) ==
    LET immBin == SubSeq(BinaryInst, 1, 12)
        Opcode == SubSeq(BinaryInst, 26, 32)
        rd == Int2(SubSeq(BinaryInst, 21, 25))
        rs1 == Int2(SubSeq(BinaryInst, 13, 17))
    IN  IF ~IsBinary(immBin) THEN Raised(pc0, regs, mem)
        ELSE LET immVal == BinaryToDecimal(immBin)
                 rs1Val == BinaryToDecimal(regs[rs1])
             IN  IF Opcode = ITypeAddi
                 THEN ExecAddi(rd, rs1Val, immVal, pc0, regs, mem)
                 ELSE IF Opcode = ITypeJalr
                 THEN ExecJalr(rd, rs1Val, immVal, pc0, regs, mem)
                 ELSE ExecLw(rd, rs1Val, immVal, pc0, regs, mem)

\* Mutant: the address is not tested for 4-byte alignment.
ExecSNoAlignment(BinaryInst, pc0, regs, mem) ==
    LET immBin == SubSeq(BinaryInst, 1, 7) \o SubSeq(BinaryInst, 21, 25)
        rs1 == Int2(SubSeq(BinaryInst, 13, 17))
        rs2 == Int2(SubSeq(BinaryInst, 8, 12))
    IN  IF ~IsBinary(immBin) THEN Raised(pc0, regs, mem)
        ELSE LET immVal == BinaryToDecimal(immBin)
                 rs1Val == BinaryToDecimal(regs[rs1])
             IN  Returned(FALSE, pc0 + 4, regs,
                          IF /\ rs1Val >= MemStart - 2048
                             /\ rs1Val <= MemStart + 4 * MemSize + 2048
                             /\ 0 <= MemIndex(rs1Val, immVal)
                             /\ MemIndex(rs1Val, immVal) < MemSize
                          THEN [mem EXCEPT ![MemIndex(rs1Val, immVal)] = regs[rs2]]
                          ELSE mem)

ExecS(BinaryInst, pc0, regs, mem) ==
    LET immBin == SubSeq(BinaryInst, 1, 7) \o SubSeq(BinaryInst, 21, 25)
        rs1 == Int2(SubSeq(BinaryInst, 13, 17))
        rs2 == Int2(SubSeq(BinaryInst, 8, 12))
    IN  IF ~IsBinary(immBin) THEN Raised(pc0, regs, mem)
        ELSE LET immVal == BinaryToDecimal(immBin)
                 rs1Val == BinaryToDecimal(regs[rs1])
             IN  Returned(FALSE, pc0 + 4, regs,
                          IF Mapped(rs1Val, immVal)
                          THEN [mem EXCEPT ![MemIndex(rs1Val, immVal)] = regs[rs2]]
                          ELSE mem)

\* Mutant: the offset has no implicit trailing zero bit.
BranchImmBitsNoTrailingZero(BinaryInst) ==
    << BinaryInst[1], BinaryInst[25] >> \o SubSeq(BinaryInst, 2, 7)
    \o SubSeq(BinaryInst, 21, 24)

\* BinaryInst[0] + BinaryInst[24] + BinaryInst[1:7] + BinaryInst[20:24] + "0"
BranchImmBits(BinaryInst) ==
    << BinaryInst[1], BinaryInst[25] >> \o SubSeq(BinaryInst, 2, 7)
    \o SubSeq(BinaryInst, 21, 24) \o << 0 >>

\* Mutant: bne tests equality, as beq does.
ExecBBneAsBeq(BinaryInst, pc0, regs, mem) ==
    LET immBits == BranchImmBits(BinaryInst)
        funct3 == SubSeq(BinaryInst, 18, 20)
        rs1 == Int2(SubSeq(BinaryInst, 13, 17))
        rs2 == Int2(SubSeq(BinaryInst, 8, 12))
    IN  IF ~IsBinary(immBits) THEN Raised(pc0, regs, mem)
        ELSE LET immVal == BinaryToDecimal(immBits)
                 rs1Val == BinaryToDecimal(regs[rs1])
                 rs2Val == BinaryToDecimal(regs[rs2])
             IN  IF funct3 \in { <<0,0,0>>, <<0,0,1>> } /\ rs1Val = rs2Val
                 THEN Returned(FALSE, pc0 + immVal, regs, mem)
                 ELSE Returned(FALSE, pc0 + 4, regs, mem)

\* Mutant: a branch that is not taken leaves the program counter alone.
ExecBUntakenStays(BinaryInst, pc0, regs, mem) ==
    LET immBits == BranchImmBits(BinaryInst)
        funct3 == SubSeq(BinaryInst, 18, 20)
        rs1 == Int2(SubSeq(BinaryInst, 13, 17))
        rs2 == Int2(SubSeq(BinaryInst, 8, 12))
    IN  IF ~IsBinary(immBits) THEN Raised(pc0, regs, mem)
        ELSE LET immVal == BinaryToDecimal(immBits)
                 rs1Val == BinaryToDecimal(regs[rs1])
                 rs2Val == BinaryToDecimal(regs[rs2])
             IN  IF funct3 = <<0,0,0>> /\ rs1Val = rs2Val
                 THEN Returned(FALSE, pc0 + immVal, regs, mem)
                 ELSE IF funct3 = <<0,0,1>> /\ rs1Val # rs2Val
                 THEN Returned(FALSE, pc0 + immVal, regs, mem)
                 ELSE Returned(FALSE, pc0, regs, mem)

ExecB(BinaryInst, pc0, regs, mem) ==
    LET immBits == BranchImmBits(BinaryInst)
        funct3 == SubSeq(BinaryInst, 18, 20)
        rs1 == Int2(SubSeq(BinaryInst, 13, 17))
        rs2 == Int2(SubSeq(BinaryInst, 8, 12))
    IN  IF ~IsBinary(immBits) THEN Raised(pc0, regs, mem)
        ELSE LET immVal == BinaryToDecimal(immBits)
                 rs1Val == BinaryToDecimal(regs[rs1])
                 rs2Val == BinaryToDecimal(regs[rs2])
             IN  IF funct3 = <<0,0,0>> /\ rs1Val = rs2Val
                 THEN Returned(FALSE, pc0 + immVal, regs, mem)
                 ELSE IF funct3 = <<0,0,1>> /\ rs1Val # rs2Val
                 THEN Returned(FALSE, pc0 + immVal, regs, mem)
                 ELSE Returned(FALSE, pc0 + 4, regs, mem)

\* BinaryInst[0] + BinaryInst[12:20] + BinaryInst[11] + BinaryInst[1:11] + "0"
JumpImmStr(BinaryInst) ==
    << BinaryInst[1] >> \o SubSeq(BinaryInst, 13, 20)
    \o << BinaryInst[12] >> \o SubSeq(BinaryInst, 2, 11) \o << 0 >>

\* Mutant: the link is written whatever rd is.
ExecJLinksX0(BinaryInst, pc0, regs, mem) ==
    LET immStr == JumpImmStr(BinaryInst)
        rd == Int2(SubSeq(BinaryInst, 21, 25))
    IN  IF ~IsBinary(immStr) THEN Raised(pc0, regs, mem)
        ELSE LET immVal == BinaryToDecimal(immStr)
             IN  Returned(FALSE, pc0 + immVal,
                          [regs EXCEPT ![rd] =
                              ConvertToBinary(Py(pc0 + 4), 32, FALSE)],
                          mem)

ExecJ(BinaryInst, pc0, regs, mem) ==
    LET immStr == JumpImmStr(BinaryInst)
        rd == Int2(SubSeq(BinaryInst, 21, 25))
    IN  IF ~IsBinary(immStr) THEN Raised(pc0, regs, mem)
        ELSE LET immVal == BinaryToDecimal(immStr)
             IN  Returned(FALSE, pc0 + immVal,
                          IF rd # 0
                          THEN [regs EXCEPT ![rd] =
                                   ConvertToBinary(Py(pc0 + 4), 32, FALSE)]
                          ELSE regs,
                          mem)

\* Lines 74-165: field extraction and the per-category semantics.
DecodeAndExecute(BinaryInst, pc0, regs, mem) ==
    IF \/ ~IsBinary(SubSeq(BinaryInst, 21, 25))
       \/ ~IsBinary(SubSeq(BinaryInst, 13, 17))
       \/ ~IsBinary(SubSeq(BinaryInst, 8, 12))
    THEN Raised(pc0, regs, mem)
    ELSE LET InstrType == CheckType(SubSeq(BinaryInst, 26, 32))
         IN  IF InstrType = "R" THEN ExecR(BinaryInst, pc0, regs, mem)
             ELSE IF InstrType = "I" THEN ExecI(BinaryInst, pc0, regs, mem)
             ELSE IF InstrType = "S" THEN ExecS(BinaryInst, pc0, regs, mem)
             ELSE IF InstrType = "B" THEN ExecB(BinaryInst, pc0, regs, mem)
             ELSE IF InstrType = "J" THEN ExecJ(BinaryInst, pc0, regs, mem)
             ELSE Returned(FALSE, pc0 + 4, regs, mem)

\* Mutant: the sentinel is not compared before decoding.
ExecuteInstructionNoHaltCheck(BinaryInst, pc0, regs, mem) ==
    IF Len(BinaryInst) # 32 THEN Raised(pc0, regs, mem)
    ELSE DecodeAndExecute(BinaryInst, pc0, regs, mem)

ExecuteInstruction(BinaryInst, pc0, regs, mem) ==
    IF Len(BinaryInst) # 32 THEN Raised(pc0, regs, mem)
    ELSE IF BinaryInst = HaltInst THEN Returned(TRUE, pc0, regs, mem)
    ELSE DecodeAndExecute(BinaryInst, pc0, regs, mem)

-----------------------------------------------------------------------------
(* Trace recorder *)

\* "0b" + ConvertToBinary(PC), then " 0b" + r[xi] for i = 0..31: the 33
\* words of the line, in order.
GetRegisterDump(pc1, regs) ==
    << ConvertToBinary(Py(pc1), 32, FALSE) >> \o [i \in 1 .. 32 |-> regs[i - 1]]

\* One line per data-memory word: its address and its content.
GetMemoryTrace(mem) ==
    [i \in 1 .. MemSize |-> << MemStart + (i - 1) * 4, mem[i - 1] >>]

-----------------------------------------------------------------------------
(* Architectural state and run loop *)

ResetRegs ==
    [i \in RegIdx |-> IF i = 2 THEN Zeros(16) \o Digits(StackPointerInit, 16)
                      ELSE Zeros(32)]
ResetMemory == [i \in 0 .. MemSize - 1 |-> Zeros(32)]

Init ==
    /\ r = << >>
    /\ Memory = << >>
    /\ Instructions = << >>
    /\ PC = 0
    /\ Halt = FALSE
    /\ results = << >>
    /\ memTrace = << >>
    /\ fileIdx = 1
    /\ loc = "for"
    /\ codec = << >>

\* The loop condition 0 <= PC // 4 < len(Instructions).
InProgram == 0 <= PC \div 4 /\ PC \div 4 < Len(Instructions)

\* for i in range(1, 11): the input file simple_i.txt does not exist.
SkipFile(Missing) ==
    /\ loc = "for"
    /\ fileIdx <= NumFiles
    /\ fileIdx \in Missing
    /\ fileIdx' = fileIdx + 1
    /\ UNCHANGED <<r, Memory, Instructions, PC, Halt, results, memTrace, loc,
                   codec>>

\* Mutant: ResetSimulator() is called for the first input file only.
StartRunResetOnce(Programs, Files) ==
    /\ loc = "for"
    /\ fileIdx <= NumFiles
    /\ fileIdx \in Files
    /\ \E prog \in Programs : Instructions' = prog
    /\ r' = IF r = << >> THEN ResetRegs ELSE r
    /\ Memory' = IF Memory = << >> THEN ResetMemory ELSE Memory
    /\ PC' = 0
    /\ results' = << >>
    /\ Halt' = FALSE
    /\ loc' = "while"
    /\ UNCHANGED <<memTrace, fileIdx, codec>>

\* The input file exists: ResetSimulator(), read it, results = [], PC = 0.
StartRun(Programs, Files) ==
    /\ loc = "for"
    /\ fileIdx <= NumFiles
    /\ fileIdx \in Files
    /\ \E prog \in Programs : Instructions' = prog
    /\ r' = ResetRegs
    /\ Memory' = ResetMemory
    /\ PC' = 0
    /\ results' = << >>
    /\ Halt' = FALSE
    /\ loc' = "while"
    /\ UNCHANGED <<memTrace, fileIdx, codec>>

\* One iteration of the while loop: fetch, execute, record the dump.
Step ==
    /\ loc = "while"
    /\ ~Halt
    /\ InProgram
    /\ LET instruction == Instructions[PC \div 4 + 1]
           out == ExecuteInstruction(instruction, PC, r, Memory)
       IN  IF out.raised
           THEN /\ loc' = "raised"
                /\ UNCHANGED <<r, Memory, PC, Halt, results>>
           ELSE /\ r' = out.r
                /\ Memory' = out.Memory
                /\ PC' = out.PC
                /\ Halt' = out.Halt
                /\ results' = Append(results, GetRegisterDump(out.PC, out.r))
                /\ loc' = "while"
    /\ UNCHANGED <<Instructions, memTrace, fileIdx, codec>>

\* The loop is left (break on Halt, or PC outside the program): the memory
\* trace is taken, the output file written, and the for loop moves on.
Finish ==
    /\ loc = "while"
    /\ Halt \/ ~InProgram
    /\ memTrace' = GetMemoryTrace(Memory)
    /\ fileIdx' = fileIdx + 1
    /\ loc' = "for"
    /\ UNCHANGED <<r, Memory, Instructions, PC, Halt, results, codec>>

-----------------------------------------------------------------------------
(* Instruction words, laid out as ExecuteInstruction slices them:          *)
(* [0:7) funct7, [7:12) rs2, [12:17) rs1, [17:20) funct3, [20:25) rd,      *)
(* [25:32) opcode.                                                         *)

Reg(i) == Digits(i, 5)
Imm(n, bits) == ConvertToBinary(Py(n), bits, FALSE)

EncR(Funct7, rs2, rs1, funct3, rd) ==
    Funct7 \o Reg(rs2) \o Reg(rs1) \o funct3 \o Reg(rd) \o <<0,1,1,0,0,1,1>>

Add(rd, rs1, rs2) == EncR(Zeros(7), rs2, rs1, <<0,0,0>>, rd)
Sub(rd, rs1, rs2) == EncR(<<0,1,0,0,0,0,0>>, rs2, rs1, <<0,0,0>>, rd)

Slt(rd, rs1, rs2) == EncR(Zeros(7), rs2, rs1, <<0,1,0>>, rd)
Srl(rd, rs1, rs2) == EncR(Zeros(7), rs2, rs1, <<1,0,1>>, rd)
And(rd, rs1, rs2) == EncR(Zeros(7), rs2, rs1, <<1,1,1>>, rd)
Or(rd, rs1, rs2) == EncR(Zeros(7), rs2, rs1, <<1,1,0>>, rd)

EncI(imm, rs1, funct3, rd, Opcode) ==
    Imm(imm, 12) \o Reg(rs1) \o funct3 \o Reg(rd) \o Opcode

Addi(rd, rs1, imm) == EncI(imm, rs1, <<0,0,0>>, rd, ITypeAddi)
Lw(rd, rs1, imm) == EncI(imm, rs1, <<0,1,0>>, rd, ITypeLw)
Jalr(rd, rs1, imm) == EncI(imm, rs1, <<0,0,0>>, rd, ITypeJalr)

Sw(rs2, rs1, imm) ==
    LET b == Imm(imm, 12)
    IN  SubSeq(b, 1, 7) \o Reg(rs2) \o Reg(rs1) \o <<0,1,0>>
        \o SubSeq(b, 8, 12) \o <<0,1,0,0,0,1,1>>

\* imm is the 13-bit branch offset; its lowest bit is not encoded.
EncB(funct3, rs1, rs2, imm) ==
    LET b == Imm(imm, 13)
    IN  << b[1] >> \o SubSeq(b, 3, 8) \o Reg(rs2) \o Reg(rs1) \o funct3
        \o SubSeq(b, 9, 12) \o << b[2] >> \o <<1,1,0,0,0,1,1>>

Beq(rs1, rs2, imm) == EncB(<<0,0,0>>, rs1, rs2, imm)
Bne(rs1, rs2, imm) == EncB(<<0,0,1>>, rs1, rs2, imm)

\* imm is the 21-bit jump offset; its lowest bit is not encoded.
Jal(rd, imm) ==
    LET b == Imm(imm, 21)
    IN  << b[1] >> \o SubSeq(b, 11, 20) \o << b[10] >> \o SubSeq(b, 2, 9)
        \o Reg(rd) \o <<1,1,0,1,1,1,1>>

\* A word whose opcode is in no table.
InvalidWord == Zeros(25) \o <<1,1,1,1,1,1,1>>

\* x4 = 2047 * 2^5 = 65504 = MemStart - 32: the shortest way to a data
\* memory address, since an immediate is at most 2047.
MemPrefix ==
    << Addi(4, 0, 2047), Add(4, 4, 4), Add(4, 4, 4), Add(4, 4, 4),
       Add(4, 4, 4), Add(4, 4, 4) >>

\* All programs of 1 .. n words over a pool of words.
ProgramsOver(Pool, n) == UNION { [1 .. k -> Pool] : k \in 1 .. n }

-----------------------------------------------------------------------------
(* Bounds *)

MaxProgLen == 3
MaxSteps == 12

-----------------------------------------------------------------------------
(* The simulator run on one input file, over a pool with every format *)

GenPool ==
    { Addi(1, 0, 5), Add(1, 1, 1), Sub(3, 0, 1),
      Lw(3, 4, 36), Sw(1, 4, 36),
      Beq(0, 1, 8), Bne(1, 0, -6),
      Jal(1, 8), Jalr(0, 1, -1),
      HaltInst, InvalidWord }

GenPrograms ==
    ProgramsOver(GenPool, MaxProgLen)
    \cup { MemPrefix \o b : b \in ProgramsOver(GenPool, MaxProgLen - 1) }

OnlyLastFile == { NumFiles }
AllButLastFile == 1 .. NumFiles - 1

BoundedStep == Len(results) < MaxSteps /\ Step

Next ==
    \/ SkipFile(AllButLastFile)
    \/ StartRun(GenPrograms, OnlyLastFile)
    \/ BoundedStep
    \/ Finish

Spec == Init /\ [][Next]_vars

-----------------------------------------------------------------------------
(* Store then load through the stack pointer *)

StoreLoad(V) == << Addi(5, 0, V), Sw(5, 2, 0), Lw(6, 2, 0) >>
StoreLoadPrograms == { StoreLoad(V) : V \in -2048 .. 2047 }

NextStoreLoad ==
    \/ SkipFile(AllButLastFile)
    \/ StartRun(StoreLoadPrograms, OnlyLastFile)
    \/ BoundedStep
    \/ Finish

SpecStoreLoad == Init /\ [][NextStoreLoad]_vars

-----------------------------------------------------------------------------
(* One addi from reset *)

ImmSamples ==
    { -2048, -2047, -1366, -1025, -1024, -381, -380, -256, -2, -1,
      0, 1, 2, 255, 256, 380, 1023, 1024, 1365, 2046, 2047 }

AddiFromResetPrograms ==
    { << Addi(i, 0, K) >> : i \in 1 .. 31, K \in ImmSamples }
    \cup { << Addi(i, 0, K) >> : i \in {1, 2, 31}, K \in -2048 .. 2047 }

NextAddi ==
    \/ SkipFile(AllButLastFile)
    \/ StartRun(AddiFromResetPrograms, OnlyLastFile)
    \/ BoundedStep
    \/ Finish

SpecAddi == Init /\ [][NextAddi]_vars

-----------------------------------------------------------------------------
(* Programs of addi words only *)

AddiPool ==
    { Addi(1, 0, 5), Addi(1, 1, -7), Addi(0, 0, 4), Addi(2, 2, 2047),
      Addi(3, 1, -2048) }

AddiPrograms == ProgramsOver(AddiPool, MaxProgLen)

NextFallThrough ==
    \/ SkipFile(AllButLastFile)
    \/ StartRun(AddiPrograms, OnlyLastFile)
    \/ BoundedStep
    \/ Finish

SpecFallThrough == Init /\ [][NextFallThrough]_vars

-----------------------------------------------------------------------------
(* Conditional branches *)

BranchScenario == << Beq(0, 0, 8), Addi(1, 0, 99), Addi(1, 0, 1) >>

BranchProgram(funct3, a, b, imm) ==
    << Addi(1, 0, a), Addi(2, 0, b), EncB(funct3, 1, 2, imm),
       Addi(3, 0, 99), Addi(3, 0, 1) >>

BranchPrograms ==
    { BranchProgram(funct3, a, b, imm) :
        funct3 \in [1 .. 3 -> {0, 1}], a \in {-1, 0, 5}, b \in {-1, 0, 5},
        imm \in {-12, -4, 0, 4, 6, 8, 12} }
    \cup { BranchScenario }

NextBranch ==
    \/ SkipFile(AllButLastFile)
    \/ StartRun(BranchPrograms, OnlyLastFile)
    \/ BoundedStep
    \/ Finish

SpecBranch == Init /\ [][NextBranch]_vars

-----------------------------------------------------------------------------
(* Loads from mapped, unmapped and misaligned addresses *)

\* x4 = MemStart - 32, x1 = 77 stored in the first, second and last word of
\* data memory, x6 = -1; then one lw x6, imm(base).
LoadSetup ==
    MemPrefix \o << Addi(1, 0, 77), Sw(1, 4, 32), Sw(1, 4, 36),
                    Sw(1, 4, 4 * MemSize + 28), Addi(6, 0, -1) >>

LoadPrograms ==
    { LoadSetup \o << Lw(6, 4, imm) >> : imm \in 24 .. 4 * MemSize + 40 }
    \cup { LoadSetup \o << Lw(6, base, imm) >> :
             base \in {0, 1, 2, 4, 6}, imm \in {-2048, -4, 0, 4, 2044, 2047} }

NextLoad ==
    \/ SkipFile(AllButLastFile)
    \/ StartRun(LoadPrograms, OnlyLastFile)
    \/ BoundedStep
    \/ Finish

SpecLoad == Init /\ [][NextLoad]_vars

-----------------------------------------------------------------------------
(* The codec on its own: ConvertToBinary, then BinaryToDecimal *)

MinSigned(w) == IF w = 1 THEN -1 ELSE (-(2 ^ (w - 2))) - 2 ^ (w - 2)
MaxSigned(w) == -(MinSigned(w) + 1)

\* Every value of a width up to 8; for a wider width the ends of the range,
\* the values around 0, the powers of two and some mixed digit patterns.
CodecValues(w) ==
    IF w <= 8 THEN MinSigned(w) .. MaxSigned(w)
    ELSE { v \in { MinSigned(w), MinSigned(w) + 1, MaxSigned(w) - 1,
                   MaxSigned(w), -2, -1, 0, 1, 2,
                   MinSigned(w) \div 3, MaxSigned(w) \div 3,
                   MinSigned(w) \div 5, MaxSigned(w) \div 5 }
                 \cup { 2 ^ k : k \in 0 .. w - 2 }
                 \cup { -(2 ^ k) : k \in 0 .. w - 2 }
                 \cup { 2 ^ k - 1 : k \in 1 .. w - 2 }
                 \cup { 65536 * j + d : j \in {-1, 0, 1}, d \in {-1, 0, 1} } :
             MinSigned(w) <= v /\ v <= MaxSigned(w) }

InitCodec ==
    /\ r = << >>
    /\ Memory = << >>
    /\ Instructions = << >>
    /\ PC = 0
    /\ Halt = FALSE
    /\ results = << >>
    /\ memTrace = << >>
    /\ fileIdx = 1
    /\ loc = "for"
    /\ \E w \in 1 .. WordBits : \E v \in CodecValues(w) : \E f \in BOOLEAN :
          codec = [stage |-> "in", v |-> v, bits |-> w, flag |-> f,
                   text |-> << >>, back |-> 0]

Encode ==
    /\ codec.stage = "in"
    /\ codec' = [codec EXCEPT
                    !.stage = "encoded",
                    !.text = ConvertToBinary(Py(codec.v), codec.bits, codec.flag)]
    /\ UNCHANGED <<r, Memory, Instructions, PC, Halt, results, memTrace,
                   fileIdx, loc>>

Decode ==
    /\ codec.stage = "encoded"
    /\ codec' = [codec EXCEPT !.stage = "decoded",
                              !.back = BinaryToDecimal(codec.text)]
    /\ UNCHANGED <<r, Memory, Instructions, PC, Halt, results, memTrace,
                   fileIdx, loc>>

NextCodec == Encode \/ Decode

SpecCodec == InitCodec /\ [][NextCodec]_vars

-----------------------------------------------------------------------------
(* Malformed instruction words *)

WellFormedWords ==
    { Addi(1, 0, 5), Lw(3, 2, 0), Jalr(1, 0, 8), Add(1, 1, 1), Sw(1, 2, 0),
      Beq(0, 1, 8), Jal(1, 8), HaltInst, InvalidWord }

\* A word with one character that is not a binary digit, or of a length
\* other than 32.
MalformedWords ==
    { [w EXCEPT ![k] = 2] : w \in WellFormedWords, k \in 1 .. 32 }
    \cup { SubSeq(w, 1, 31) : w \in WellFormedWords }
    \cup { w \o << b >> : w \in WellFormedWords, b \in {0, 1} }
    \cup { << 1 >> }

MalformedPrograms == { << w >> : w \in MalformedWords \cup WellFormedWords }

NextMalformed ==
    \/ SkipFile(AllButLastFile)
    \/ StartRun(MalformedPrograms, OnlyLastFile)
    \/ BoundedStep
    \/ Finish

SpecMalformed == Init /\ [][NextMalformed]_vars

-----------------------------------------------------------------------------
(* A batch: every input file may exist, one program after another *)

BatchPrograms ==
    { MemPrefix \o << Addi(1, 0, 77), Sw(1, 4, 36) >>,
      MemPrefix \o << Lw(3, 4, 36) >>,
      << Add(3, 1, 4), Lw(5, 2, 0) >>,
      << Addi(2, 2, -4), Jal(1, 8) >>,
      << HaltInst >>,
      << [Addi(1, 0, 5) EXCEPT ![21] = 2] >> }

AllFiles == 1 .. NumFiles

NextBatch ==
    \/ SkipFile(AllFiles)
    \/ StartRun(BatchPrograms, AllFiles)
    \/ BoundedStep
    \/ Finish

SpecBatch == Init /\ [][NextBatch]_vars

-----------------------------------------------------------------------------
(* Words whose opcode is in no table *)

\* The keys of RType, IType, SType, BType and JType.
TableOpcodes == RType \cup IType \cup SType \cup BType \cup JType

\* The upper 25 characters of a word: all 0, all 1, those of an addi and
\* those of a sw, so that the register and immediate fields vary.
UpperFields ==
    { Zeros(25), [i \in 1 .. 25 |-> 1], SubSeq(Addi(1, 0, 5), 1, 25),
      SubSeq(Sw(4, 4, 32), 1, 25) }

UnknownWords ==
    { u \o op : u \in UpperFields, op \in [1 .. 7 -> {0, 1}] \ TableOpcodes }

\* The word alone, after an addi, and after a store that landed.
UnknownPrograms ==
    { << w >> : w \in UnknownWords }
    \cup { << Addi(1, 0, 5), w >> : w \in UnknownWords }
    \cup { MemPrefix \o << Sw(4, 4, 32), w >> : w \in UnknownWords }

NextUnknown ==
    \/ SkipFile(AllButLastFile)
    \/ StartRun(UnknownPrograms, OnlyLastFile)
    \/ BoundedStep
    \/ Finish

SpecUnknown == Init /\ [][NextUnknown]_vars

-----------------------------------------------------------------------------
(* Stores to mapped, unmapped and misaligned addresses *)

\* x4 = MemStart - 32, 77 stored in the second word of data memory, x5 = -3;
\* then one sw of x5 (or of the base register itself).
StoreSetup ==
    MemPrefix \o << Addi(1, 0, 77), Sw(1, 4, 36), Addi(5, 0, -3) >>

StorePrograms ==
    { StoreSetup \o << Sw(5, 4, imm) >> : imm \in 24 .. 4 * MemSize + 40 }
    \cup { StoreSetup \o << Sw(rs2, base, imm) >> :
             rs2 \in {4, 5}, base \in {0, 1, 2, 4, 5},
             imm \in {-2048, -4, 0, 4, 32, 2044, 2047} }

NextStore ==
    \/ SkipFile(AllButLastFile)
    \/ StartRun(StorePrograms, OnlyLastFile)
    \/ BoundedStep
    \/ Finish

SpecStore == Init /\ [][NextStore]_vars

-----------------------------------------------------------------------------
(* Jumps: jal and jalr, with and without a link register *)

\* x1 = K, the jump at PC = 4, two more words to land on.
JumpProgram(K, jump) == << Addi(1, 0, K), jump, Addi(3, 0, 1), Addi(3, 3, 1) >>

JumpWords ==
    { Jal(rd, imm) : rd \in {0, 1, 2, 31},
                     imm \in {-1048576, -8, -4, -2, 0, 2, 4, 8, 10, 1048574} }
    \cup { Jalr(rd, rs1, imm) : rd \in {0, 1, 5}, rs1 \in {0, 1, 2},
                                imm \in {-2048, -1, 0, 1, 4, 7, 8, 2047} }

JumpPrograms ==
    { JumpProgram(K, jump) : K \in {-3, 0, 9}, jump \in JumpWords }
    \cup { << jump, Addi(3, 0, 1) >> : jump \in JumpWords }

NextJump ==
    \/ SkipFile(AllButLastFile)
    \/ StartRun(JumpPrograms, OnlyLastFile)
    \/ BoundedStep
    \/ Finish

SpecJump == Init /\ [][NextJump]_vars

-----------------------------------------------------------------------------
(* Arithmetic at the ends of the 32-bit range *)

\* x1 = -2048 doubled 20 times: x1 = -2^31, the least 32-bit value.
WidePrefix == << Addi(1, 0, -2048) >> \o [i \in 1 .. 20 |-> Add(1, 1, 1)]

\* Sums and differences that leave the range at either end.
WidePool ==
    { Addi(3, 1, -1), Addi(5, 0, 1), Add(6, 3, 5), Add(1, 1, 1),
      Sub(7, 0, 1), Sub(3, 1, 2) }

\* Stores, loads and a link with x4 = MemStart - 32.
WideMemPool ==
    { Addi(1, 0, -1), Sw(1, 4, 32), Sw(4, 4, 36), Lw(3, 4, 32), Lw(2, 4, 37),
      Jalr(4, 4, -24) }

WidePrograms ==
    { WidePrefix \o t : t \in ProgramsOver(WidePool, MaxProgLen) }
    \cup { MemPrefix \o t : t \in ProgramsOver(WideMemPool, MaxProgLen) }

\* No word of these programs sends PC backwards, so a run takes at most one
\* step for each word.
WideStep == Len(results) < Len(Instructions) /\ Step

NextWide ==
    \/ SkipFile(AllButLastFile)
    \/ StartRun(WidePrograms, OnlyLastFile)
    \/ WideStep
    \/ Finish

SpecWide == Init /\ [][NextWide]_vars

-----------------------------------------------------------------------------
(* Register 0 as a destination and as a source *)

\* Words that name x0 as rd, and two that read it back.
ZeroRegPool ==
    { Addi(0, 0, 7), Add(0, 2, 2), Sub(0, 0, 2), Or(0, 0, 2), Lw(0, 2, 0),
      Jal(0, 4), Jalr(0, 2, 4 - StackPointerInit),
      Addi(1, 0, 1), Add(1, 0, 0) }

\* addi x0, x0, K from reset, then a word that reads x0.
ZeroRegAddi ==
    { << Addi(0, 0, K), reader >> :
        K \in ImmSamples, reader \in { Addi(1, 0, 1), Add(1, 0, 0) } }

\* x4 = MemStart - 32 stored in the first data-memory word, loaded into x0.
ZeroRegLoad == MemPrefix \o << Sw(4, 4, 32), Lw(0, 4, 32), Add(1, 0, 0) >>

ZeroRegPrograms ==
    ProgramsOver(ZeroRegPool, MaxProgLen) \cup ZeroRegAddi \cup { ZeroRegLoad }

NextZeroReg ==
    \/ SkipFile(AllButLastFile)
    \/ StartRun(ZeroRegPrograms, OnlyLastFile)
    \/ BoundedStep
    \/ Finish

SpecZeroReg == Init /\ [][NextZeroReg]_vars

-----------------------------------------------------------------------------
(* Right shifts: R-type words with funct3 = 101 *)

\* x1 = a * 2^d, x2 = k, then x3 = x1 >> (x2 & 0x1F).
ShiftProgram(a, d, k) ==
    << Addi(1, 0, a) >> \o [i \in 1 .. d |-> Add(1, 1, 1)]
    \o << Addi(2, 0, k), Srl(3, 1, 2) >>

ShiftValues == {-2048, -1025, -6, -1, 0, 1, 5, 2047}
ShiftDoublings == {0, 4, 9}
ShiftAmounts == {-2048, -32, -1, 0, 1, 2, 5, 31, 32, 33, 37, 63, 1024, 2047}

\* The shifted register as its own shift amount or its own destination.
ShiftPrograms ==
    { ShiftProgram(a, d, k) :
        a \in ShiftValues, d \in ShiftDoublings, k \in ShiftAmounts }
    \cup { << Addi(1, 0, a), Srl(rd, 1, 1) >> : a \in ShiftValues, rd \in {0, 1, 3} }

NextShift ==
    \/ SkipFile(AllButLastFile)
    \/ StartRun(ShiftPrograms, OnlyLastFile)
    \/ BoundedStep
    \/ Finish

SpecShift == Init /\ [][NextShift]_vars

-----------------------------------------------------------------------------
(* A store, other instructions, then a load *)

\* Words run between the store and the load: they change the stored
\* register, store to the same and to other words, load and link.
BetweenPool ==
    { Addi(1, 1, 1), Sw(1, 4, 32), Sw(4, 4, 36), Lw(1, 4, 36), Jal(1, 4) }

\* x4 = MemStart - 32, x1 = -3 stored at x4 + to, ..., x6 loaded from x4 + from.
RoundTripProgram(to, between, from) ==
    MemPrefix \o << Addi(1, 0, -3), Sw(1, 4, to) >> \o between
    \o << Lw(6, 4, from) >>

RoundTripPrograms ==
    { RoundTripProgram(to, between, from) :
        to \in {32, 4 * MemSize + 28},
        between \in { << >> } \cup ProgramsOver(BetweenPool, MaxProgLen - 1),
        from \in {32, 36, 4 * MemSize + 28} }

NextRoundTrip ==
    \/ SkipFile(AllButLastFile)
    \/ StartRun(RoundTripPrograms, OnlyLastFile)
    \/ BoundedStep
    \/ Finish

SpecRoundTrip == Init /\ [][NextRoundTrip]_vars

-----------------------------------------------------------------------------
(* jalr whose link register is its base register *)

\* x_a = K, then jalr x_a, x_a, imm at PC = 4.
JalrSameProgram(a, K, imm) ==
    << Addi(a, 0, K), Jalr(a, a, imm), Addi(3, 0, 1), Addi(3, 3, 1) >>

JalrSamePrograms ==
    { JalrSameProgram(a, K, imm) :
        a \in {1, 2, 5, 31}, K \in {-3, 0, 4, 8, 9, 12, 2047},
        imm \in {-2048, -8, -1, 0, 1, 3, 4, 8} }
    \cup { << Jalr(2, 2, imm - StackPointerInit), Addi(3, 0, 1), Addi(3, 3, 1) >> :
             imm \in {-4, 0, 4, 7, 8, 12} }

NextJalrSame ==
    \/ SkipFile(AllButLastFile)
    \/ StartRun(JalrSamePrograms, OnlyLastFile)
    \/ BoundedStep
    \/ Finish

SpecJalrSame == Init /\ [][NextJalrSame]_vars

-----------------------------------------------------------------------------
(* Programs that only go forward: no jalr, every branch and jump offset > 0 *)

ForwardPool ==
    { Addi(1, 0, 5), Sw(1, 2, 0), InvalidWord, HaltInst,
      Jal(0, 2), Jal(1, 6),
      Beq(0, 0, 2), Beq(1, 0, 8), Bne(1, 0, 6), EncB(<<1,0,0>>, 0, 0, 2) }

ForwardPrograms == ProgramsOver(ForwardPool, MaxProgLen)

NextForward ==
    \/ SkipFile(AllButLastFile)
    \/ StartRun(ForwardPrograms, OnlyLastFile)
    \/ BoundedStep
    \/ Finish

SpecForward == Init /\ [][NextForward]_vars

-----------------------------------------------------------------------------
(* Properties of the run loop and the execution unit *)

\* The word the while loop is about to fetch, Instructions[PC // 4].
Fetching == loc = "while" /\ ~Halt /\ InProgram
Fetched == Instructions[PC \div 4 + 1]

\* The store/load program has run its three steps and the loop is left.
C1_Finished ==
    Instructions \in StoreLoadPrograms /\ loc = "for" /\ Len(results) = 3

\* C1 (as stated): after addi x5, x0, V; sw x5, 0(x2); lw x6, 0(x2) run from
\* reset, x6 holds V, for every 12-bit signed V.
C1_StoreLoadRoundTrip ==
    C1_Finished
        => BinaryToDecimal(r[6]) = BinaryToDecimal(SubSeq(Instructions[1], 1, 12))

\* A program whose first word is the sentinel: nothing changes, and one line
\* (pc = 0 and the reset registers) is recorded once the step is taken.
C2_HaltFirstWord ==
    (Len(Instructions) > 0 /\ Instructions[1] = HaltInst /\ loc = "while")
        => /\ PC = 0 /\ r = ResetRegs /\ Memory = ResetMemory
           /\ results = IF Halt THEN << GetRegisterDump(0, ResetRegs) >>
                        ELSE << >>
\* The step that fetches the sentinel.
C2_HaltStep ==
    (Fetching /\ Fetched = HaltInst)
        => /\ Halt' /\ PC' = PC /\ r' = r /\ Memory' = Memory
           /\ results' = Append(results, GetRegisterDump(PC, r))
\* The step after the halt flag is returned leaves the loop.
C2_HaltStops ==
    (loc = "while" /\ Halt)
        => /\ loc' = "for" /\ results' = results
           /\ PC' = PC /\ r' = r /\ Memory' = Memory

\* C2 (halt): whenever the fetched word is the halt sentinel, the step
\* returns the halt flag with PC, the registers and data memory unchanged
\* and records exactly one trace line; the loop then stops without another
\* line (the sentinel is not run as beq x0, x0, 0, which would loop).  A
\* program whose first word is the sentinel ends with exactly one line,
\* showing pc = 0 and the reset registers.
C2_Halt ==
    [](C2_HaltFirstWord) /\ [][C2_HaltStep /\ C2_HaltStops]_vars

\* A halt reached at pc = 8 after two steps that changed registers.
C2_Witness ==
    loc = "for" /\ Halt /\ Len(results) = 3 /\ PC = 8 /\ r # ResetRegs

\* C3 (as stated): the program counter is a multiple of 4 in every state
\* reachable by running any program from reset.
C3_PcMultipleOf4 == PC % 4 = 0

\* The words that can take a 4-aligned program counter to an unaligned one.
MayMisalign(BinaryInst) ==
    LET Opcode == SubSeq(BinaryInst, 26, 32)
    IN  \/ Opcode = ITypeJalr
        \/ Opcode \in BType /\ BinaryToDecimal(BranchImmBits(BinaryInst)) % 4 # 0
        \/ Opcode \in JType /\ BinaryToDecimal(JumpImmStr(BinaryInst)) % 4 # 0
C3_StepKeepsAlignment ==
    (Fetching /\ PC % 4 = 0 /\ PC' % 4 # 0) => MayMisalign(Fetched)

\* C3 (amended): the program counter is always even, and a step from a
\* program counter that is a multiple of 4 leaves it a multiple of 4 unless
\* the step executes a jalr, a B-type word whose offset is not a multiple
\* of 4, or a J-type word whose offset is not a multiple of 4.
C3_PcEven ==
    [](PC % 2 = 0) /\ [][C3_StepKeepsAlignment]_vars

\* The loop about to fetch at a program counter that is 2 modulo 4.
C3_Witness ==
    Fetching /\ PC % 4 = 2 /\ Len(results) > 0

\* In a run of an addi-only program PC is 4 times the number of lines, the
\* loop goes on exactly while fewer than n lines are recorded (the step cap
\* of the model never binds), and it is left with n lines and PC = 4 * n.
C4_Counts ==
    /\ loc = "while" =>
          /\ ~Halt
          /\ PC = 4 * Len(results)
          /\ Len(results) < MaxSteps
          /\ (InProgram <=> Len(results) < Len(Instructions))
    /\ (loc = "for" /\ Len(Instructions) > 0) =>
          /\ Len(results) = Len(Instructions)
          /\ PC = 4 * Len(Instructions)
          /\ ~Halt
    /\ loc # "raised"
\* Every iteration records one more line; past the end the loop is left.
C4_Progress ==
    /\ Fetching => (loc' = "while" /\ Len(results') = Len(results) + 1)
    /\ (loc = "while" /\ ~InProgram) => (loc' = "for" /\ results' = results)

\* C4 (fall-through): a program of n addi words and no halt sentinel, run
\* from PC = 0, executes exactly n steps, records exactly n trace lines and
\* ends with PC = 4 * n: each iteration adds one line, and the loop is left
\* when and only when n lines are recorded, by fall-through.
C4_FallThrough == [](C4_Counts) /\ [][C4_Progress]_vars

\* A program of the greatest length has run to its end.
C4_Witness ==
    /\ loc = "for" /\ fileIdx = NumFiles + 1
    /\ Len(Instructions) = MaxProgLen /\ Len(results) = MaxProgLen
    /\ PC = 4 * MaxProgLen

\* A B-type step: PC + imm when taken, PC + 4 when not, nothing else changed.
C5_BranchStep ==
    (Fetching /\ SubSeq(Fetched, 26, 32) \in BType) =>
        LET funct3 == SubSeq(Fetched, 18, 20)
            rs1Val == BinaryToDecimal(r[Int2(SubSeq(Fetched, 13, 17))])
            rs2Val == BinaryToDecimal(r[Int2(SubSeq(Fetched, 8, 12))])
            immVal == BinaryToDecimal(BranchImmBits(Fetched))
            taken == \/ funct3 = <<0,0,0>> /\ rs1Val = rs2Val
                     \/ funct3 = <<0,0,1>> /\ rs1Val # rs2Val
        IN  /\ PC' = IF taken THEN PC + immVal ELSE PC + 4
            /\ r' = r
            /\ Memory' = Memory
            /\ loc' = "while"
\* The branch scenario never shows x1 = 99 and ends after two steps, x1 = 1.
C5_Scenario ==
    (Instructions = BranchScenario /\ loc \in {"while", "for"}) =>
        /\ BinaryToDecimal(r[1]) # 99
        /\ \A k \in 1 .. Len(results) : BinaryToDecimal(results[k][3]) # 99
        /\ (~InProgram => (BinaryToDecimal(r[1]) = 1 /\ Len(results) = 2))

\* C5 (branch resolution): a B-type step sets PC to PC + imm when the word
\* is beq and rs1 = rs2 or is bne and rs1 # rs2, and to PC + 4 otherwise
\* (untaken, or any other funct3), changing no register and no memory word.
\* The program [beq x0,x0,+8; addi x1,x0,99; addi x1,x0,1] ends with x1 = 1
\* after two steps, and x1 = 99 shows in no state and no trace line.
C5_Branch == [](C5_Scenario) /\ [][C5_BranchStep]_vars

\* The branch scenario has run to its end.
C5_Witness ==
    /\ Instructions = BranchScenario /\ loc = "for"
    /\ Len(results) = 2 /\ BinaryToDecimal(r[1]) = 1 /\ PC = 12

\* A 12-bit immediate as a 32-bit two's-complement word.
SignExtend(immBin) == [j \in 1 .. 32 - Len(immBin) |-> immBin[1]] \o immBin

\* C6 (addi from reset): after addi x_i, x0, K as the first instruction,
\* register i holds K sign-extended to 32 bits, every other register and
\* all data memory are as at reset, and PC is 4.
C6_AddiFromReset ==
    (loc = "while" /\ Len(results) = 1) =>
        LET i == Int2(SubSeq(Instructions[1], 21, 25))
            immBin == SubSeq(Instructions[1], 1, 12)
        IN  /\ r = [ResetRegs EXCEPT ![i] = SignExtend(immBin)]
            /\ Memory = ResetMemory
            /\ PC = 4
            /\ results = << GetRegisterDump(4, r) >>

\* addi x31, x0, -2048 has been executed.
C6_Witness ==
    /\ loc = "while" /\ Len(results) = 1
    /\ Instructions = << Addi(31, 0, -2048) >>
    /\ BinaryToDecimal(r[31]) = -2048

\* A lw step whose address is outside data memory or not a multiple of 4.
C7_LoadStep ==
    (Fetching /\ SubSeq(Fetched, 26, 32) = ITypeLw) =>
        LET rd == Int2(SubSeq(Fetched, 21, 25))
            rs1Val == BinaryToDecimal(r[Int2(SubSeq(Fetched, 13, 17))])
            Address == rs1Val + BinaryToDecimal(SubSeq(Fetched, 1, 12))
        IN  (\/ Address < MemStart
             \/ Address >= MemStart + 4 * MemSize
             \/ Address % 4 # 0)
            => /\ r' = [r EXCEPT ![rd] = Zeros(32)]
               /\ Memory' = Memory
               /\ PC' = PC + 4
               /\ loc' = "while"

\* C7 (unmapped or misaligned load): a lw whose address rs1 + imm is outside
\* [MemStart, MemStart + 4 * MemSize) or is not a multiple of 4 sets the
\* destination register to 0 and nothing else, raises no error, leaves data
\* memory unchanged and advances PC by 4.
C7_UnmappedLoad == [][C7_LoadStep]_vars

\* A load from MemStart + 1, inside data memory but misaligned, has zeroed
\* x6, which held -1, while the word at MemStart is not zero.
C7_Witness ==
    /\ Instructions = LoadSetup \o << Lw(6, 4, 33) >>
    /\ loc = "for" /\ Len(results) = Len(Instructions)
    /\ results[Len(results) - 1][8] # Zeros(32)
    /\ r[6] = Zeros(32)
    /\ Memory[0] # Zeros(32)

\* C8 (codec round trip): for every width w up to the word size and every v
\* with -2^(w-1) <= v < 2^(w-1), ConvertToBinary(v, w) is a string of
\* exactly w binary digits and BinaryToDecimal of it is v.
C8_RoundTrip ==
    /\ codec.stage \in {"encoded", "decoded"} =>
          (Len(codec.text) = codec.bits /\ IsBinary(codec.text))
    /\ codec.stage = "decoded" => codec.back = codec.v

\* The least 32-bit value has gone through both conversions.
C8_Witness ==
    /\ codec.stage = "decoded" /\ codec.bits = WordBits
    /\ codec.v = MinSigned(WordBits) /\ codec.back = codec.v

\* A word of the wrong length or with a character that is no binary digit.
Malformed(BinaryInst) == Len(BinaryInst) # 32 \/ ~IsBinary(BinaryInst)
C9_MalformedStep ==
    (Fetching /\ Malformed(Fetched)) => (loc' = "raised" /\ results' = results)

\* C9 (as stated): executing a word that is not exactly 32 characters long,
\* or that holds a character other than '0'/'1' at any position, ends in
\* the decode error and not in a normal step.
C9_MalformedRaises == [][C9_MalformedStep]_vars

\* The program run alone from the reset state for k iterations.
RECURSIVE RunAlone(_, _)
RunAlone(prog, k) ==
    IF k = 0
    THEN [PC |-> 0, r |-> ResetRegs, Memory |-> ResetMemory, results |-> << >>]
    ELSE LET s == RunAlone(prog, k - 1)
             out == ExecuteInstruction(prog[s.PC \div 4 + 1], s.PC, s.r, s.Memory)
         IN  [PC |-> out.PC, r |-> out.r, Memory |-> out.Memory,
              results |-> Append(s.results, GetRegisterDump(out.PC, out.r))]

\* C10 (run isolation): every run of a batch starts from the reset state
\* (registers 0 except x2 = the stack-pointer value, data memory 0, PC = 0),
\* so at every point of a run the program counter, registers, memory and
\* trace, and at its end the memory dump, are those of the same program run
\* alone from reset, whatever ran before it.
C10_RunIsolation ==
    /\ (loc = "while" /\ results = << >>) =>
          (r = ResetRegs /\ Memory = ResetMemory /\ PC = 0)
    /\ (loc \in {"while", "raised"} \/ (loc = "for" /\ Instructions # << >>)) =>
          LET s == RunAlone(Instructions, Len(results))
          IN  /\ PC = s.PC /\ r = s.r /\ Memory = s.Memory
              /\ results = s.results
              /\ loc = "for" => memTrace = GetMemoryTrace(s.Memory)

\* A later run has loaded 0 from the word an earlier run stored 77 in.
C10_Witness ==
    /\ fileIdx >= 2 /\ loc = "while"
    /\ Instructions = MemPrefix \o << Lw(3, 4, 36) >>
    /\ Len(results) = Len(Instructions)
    /\ memTrace # << >> /\ memTrace[2][2] # Zeros(32)
    /\ r[3] = Zeros(32)

\* A step that fetches a 32-digit binary word, not the sentinel, whose
\* opcode is in no table.
C11_UnknownStep ==
    (/\ Fetching
     /\ Len(Fetched) = 32 /\ IsBinary(Fetched)
     /\ Fetched # HaltInst
     /\ SubSeq(Fetched, 26, 32) \notin TableOpcodes)
    => /\ r' = r
       /\ Memory' = Memory
       /\ PC' = PC + 4
       /\ ~Halt'
       /\ loc' = "while"
       /\ results' = Append(results, GetRegisterDump(PC + 4, r))

\* C11 (unrecognized opcode): executing a 32-bit binary word other than the
\* halt sentinel whose low 7 bits are none of the seven table opcodes leaves
\* all 32 registers and all data memory unchanged, sets PC to PC + 4, does
\* not halt and raises no error.
C11_UnknownOpcodeNoOp == [][C11_UnknownStep]_vars

\* An unknown word with all register fields 1 has run after a store that
\* landed: the last two trace lines differ in the program counter only.
C11_Witness ==
    /\ loc = "for" /\ Len(Instructions) = 8 /\ Len(results) = 8
    /\ Instructions[8] = [i \in 1 .. 32 |-> 1]
    /\ Memory[0] # Zeros(32)
    /\ PC = 32 /\ ~Halt
    /\ Tail(results[8]) = Tail(results[7])

\* A sw step: dropped when the address is outside data memory or not a
\* multiple of 4, else written to the one word the address names.
C12_StoreStep ==
    (Fetching /\ SubSeq(Fetched, 26, 32) \in SType) =>
        LET rs2 == Int2(SubSeq(Fetched, 8, 12))
            rs1Val == BinaryToDecimal(r[Int2(SubSeq(Fetched, 13, 17))])
            Address == rs1Val + BinaryToDecimal(SubSeq(Fetched, 1, 7)
                                                \o SubSeq(Fetched, 21, 25))
        IN  /\ r' = r
            /\ PC' = PC + 4
            /\ loc' = "while"
            /\ IF \/ Address < MemStart
                  \/ Address >= MemStart + 4 * MemSize
                  \/ Address % 4 # 0
               THEN Memory' = Memory
               ELSE Memory' =
                       [Memory EXCEPT ![(Address - MemStart) \div 4] = r[rs2]]

\* C12 (dropped store): a sw whose address rs1 + imm is outside
\* [MemStart, MemStart + 4 * MemSize) or is not a multiple of 4 changes no
\* data-memory word and no register, and PC still advances by 4; a sw to a
\* mapped aligned address changes exactly the word at index
\* (address - MemStart) / 4, to the full 32-bit value of rs2, and no other
\* word and no register.
C12_DroppedStore == [][C12_StoreStep]_vars

\* A store of -3 to MemStart + 5, inside data memory but misaligned, has
\* been dropped: the word there still holds 77 and the others 0.
C12_Witness ==
    /\ Instructions = StoreSetup \o << Sw(5, 4, 37) >>
    /\ loc = "for" /\ Len(results) = Len(Instructions)
    /\ PC = 4 * Len(Instructions)
    /\ BinaryToDecimal(r[5]) = -3
    /\ Memory = [ResetMemory EXCEPT ![1] = Imm(77, 32)]

\* A jal or jalr step at program counter PC.
C13_LinkStep ==
    (Fetching /\ SubSeq(Fetched, 26, 32) \in JType \cup {ITypeJalr}) =>
        LET rd == Int2(SubSeq(Fetched, 21, 25))
            rs1Val == BinaryToDecimal(r[Int2(SubSeq(Fetched, 13, 17))])
            jalImm == BinaryToDecimal(JumpImmStr(Fetched))
            target == rs1Val + BinaryToDecimal(SubSeq(Fetched, 1, 12))
        IN  /\ r' = IF rd # 0 THEN [r EXCEPT ![rd] = Imm(PC + 4, 32)] ELSE r
            /\ Memory' = Memory
            /\ loc' = "while"
            /\ IF SubSeq(Fetched, 26, 32) \in JType
               THEN /\ PC' = PC + jalImm
                    /\ jalImm % 2 = 0
                    /\ -1048576 <= jalImm /\ jalImm < 1048576
               ELSE PC' = target - (target % 2)

\* C13 (link register): jal and jalr executed at program counter p write
\* p + 4 into rd when rd # 0 and write no register when rd = 0; jal sets PC
\* to p + imm (imm a 21-bit signed even number) and jalr sets PC to
\* rs1 + imm with bit 0 cleared; PC is replaced by the target, with no
\* p + 4 fall-through.
C13_LinkRegister == [][C13_LinkStep]_vars

\* jalr x5, x1, 4 at PC = 4 with x1 = 9: x5 = 8 and PC = 12, not 13.
C13_Witness ==
    /\ Instructions = JumpProgram(9, Jalr(5, 1, 4))
    /\ loc = "while" /\ Len(results) = 2
    /\ PC = 12 /\ BinaryToDecimal(r[5]) = 8 /\ BinaryToDecimal(r[1]) = 9

\* The value hi * 65536 + lo of a pair reduced modulo 2^32 into the signed
\* range [-2^31, 2^31).
Wrap32(p) ==
    LET h == p[1] + (p[2] \div 65536)
        l == p[2] % 65536
    IN  (((h + 32768) % 65536) - 32768) * 65536 + l

\* Every register and every data-memory word is a string of 32 binary digits.
C14_Width ==
    loc # "for" \/ Instructions # << >> =>
        /\ \A i \in RegIdx : Len(r[i]) = 32 /\ IsBinary(r[i])
        /\ \A i \in 0 .. MemSize - 1 : Len(Memory[i]) = 32 /\ IsBinary(Memory[i])
\* add, sub and addi store the sum or difference reduced modulo 2^32.
C14_WrapStep ==
    Fetching =>
        LET Opcode == SubSeq(Fetched, 26, 32)
            rd == Int2(SubSeq(Fetched, 21, 25))
            rs1Val == BinaryToDecimal(r[Int2(SubSeq(Fetched, 13, 17))])
            rs2Val == BinaryToDecimal(r[Int2(SubSeq(Fetched, 8, 12))])
            immVal == BinaryToDecimal(SubSeq(Fetched, 1, 12))
        IN  /\ (Opcode \in RType /\ SubSeq(Fetched, 18, 20) = <<0,0,0>>) =>
                  BinaryToDecimal(r'[rd]) =
                      IF SubSeq(Fetched, 1, 7) = Zeros(7)
                      THEN Wrap32(PyAdd(Py(rs1Val), Py(rs2Val)))
                      ELSE Wrap32(PySub(Py(rs1Val), Py(rs2Val)))
            /\ Opcode = ITypeAddi =>
                  BinaryToDecimal(r'[rd]) = Wrap32(PyAdd(Py(rs1Val), Py(immVal)))

\* C14 (width): in every state reachable from reset each of the 32
\* registers and each data-memory word holds exactly 32 binary digits, and
\* the results of add, sub and addi wrap modulo 2^32 (2^31 - 1 plus 1 is
\* -2^31; addi and sub below -2^31 wrap to the top of the range).
C14_WidthInvariant == [](C14_Width) /\ [][C14_WrapStep]_vars

\* x3 = -2^31 - 1 wrapped to 2^31 - 1, and x6 = x3 + 1 wrapped to -2^31.
C14_Witness ==
    /\ Instructions = WidePrefix \o << Addi(3, 1, -1), Addi(5, 0, 1), Add(6, 3, 5) >>
    /\ loc = "for" /\ Len(results) = Len(Instructions)
    /\ r[1] = << 1 >> \o Zeros(31)
    /\ r[3] = << 0 >> \o [i \in 1 .. 31 |-> 1]
    /\ r[6] = << 1 >> \o Zeros(31)

\* A step whose word names x0 as rd: an R-type word, addi or lw gives x0
\* the value the same word with rd = 5 gives x5; jal and jalr write nothing.
C15_ZeroRegStep ==
    (Fetching /\ Fetched # HaltInst /\ SubSeq(Fetched, 21, 25) = Reg(0)) =>
        LET Opcode == SubSeq(Fetched, 26, 32)
            other == SubSeq(Fetched, 1, 20) \o Reg(5) \o Opcode
            out == ExecuteInstruction(other, PC, r, Memory)
        IN  /\ Opcode \in RType \cup {ITypeAddi, ITypeLw} =>
                  (r' = [r EXCEPT ![0] = out.r[5]] /\ PC' = out.PC)
            /\ Opcode \in JType \cup {ITypeJalr} =>
                  (r' = r /\ PC' = out.PC)
\* addi x0, x0, K as the first word: x0 = K, and x0 read as a source is K.
C15_AddiToZeroReg ==
    \A K \in ImmSamples :
        (loc = "while" /\ Instructions[1] = Addi(0, 0, K)) =>
            /\ Len(results) = 1 => BinaryToDecimal(r[0]) = K
            /\ (Len(results) = 2 /\ Instructions[2] = Addi(1, 0, 1)) =>
                  (BinaryToDecimal(r[0]) = K /\ BinaryToDecimal(r[1]) = K + 1)
            /\ (Len(results) = 2 /\ Instructions[2] = Add(1, 0, 0)) =>
                  (BinaryToDecimal(r[0]) = K /\ BinaryToDecimal(r[1]) = 2 * K)

\* C15 (register 0 not pinned): R-type words, addi and lw with rd = 0 write
\* x0 exactly as they write any other register (after addi x0, x0, K from
\* reset x0 = K, and later reads of x0 as a source return K); only jal and
\* jalr skip the write when rd = 0.
C15_ZeroRegWritable == [](C15_AddiToZeroReg) /\ [][C15_ZeroRegStep]_vars

\* x0 = 7 after addi x0, x0, 7; jal x0 left it alone; add x1, x0, x0 read 14.
C15_Witness ==
    /\ Instructions = << Addi(0, 0, 7), Jal(0, 4), Add(1, 0, 0) >>
    /\ loc = "for" /\ Len(results) = 3
    /\ BinaryToDecimal(r[0]) = 7 /\ BinaryToDecimal(r[1]) = 14

\* An R-type step with funct3 = 101: the digits of rs1 move right by the
\* amount held in the low 5 digits of rs2, and the sign digit fills the gap.
C16_ShiftStep ==
    (/\ Fetching
     /\ SubSeq(Fetched, 26, 32) \in RType
     /\ SubSeq(Fetched, 18, 20) = <<1,0,1>>) =>
        LET rd == Int2(SubSeq(Fetched, 21, 25))
            A == r[Int2(SubSeq(Fetched, 13, 17))]
            k == Int2(SubSeq(r[Int2(SubSeq(Fetched, 8, 12))], 28, 32))
        IN  /\ r' = [r EXCEPT
                        ![rd] = [i \in 1 .. 32 |-> IF i <= k THEN A[1]
                                                   ELSE A[i - k]]]
            /\ Memory' = Memory
            /\ PC' = PC + 4

PcBefore(j) == IF j = 1 THEN 0 ELSE BinaryToDecimal(results[j - 1][1])
RegsBefore(j) ==
    IF j = 1 THEN ResetRegs ELSE [i \in RegIdx |-> results[j - 1][i + 2]]
WordAt(j) == Instructions[PcBefore(j) \div 4 + 1]

\* Step j was a sw to the data-memory word idx.
StoreLands(j, idx) ==
    /\ SubSeq(WordAt(j), 26, 32) \in SType
    /\ BinaryToDecimal(RegsBefore(j)[Int2(SubSeq(WordAt(j), 13, 17))])
       + BinaryToDecimal(SubSeq(WordAt(j), 1, 7) \o SubSeq(WordAt(j), 21, 25))
       = MemStart + 4 * idx

\* What rs2 held at the last sw that landed on word idx, or 0 if none did.
LastStored(idx) ==
    LET J == { j \in 1 .. Len(results) : StoreLands(j, idx) }
    IN  IF J = { } THEN Zeros(32)
        ELSE LET last == CHOOSE j \in J : \A k \in J : k <= j
             IN  RegsBefore(last)[Int2(SubSeq(WordAt(last), 8, 12))]

\* Every data-memory word holds what the last store to it stored.
C17_MemoryIsLastStore ==
    (loc = "while" \/ (loc = "for" /\ Instructions # << >>)) =>
        \A idx \in 0 .. MemSize - 1 : Memory[idx] = LastStored(idx)
\* A step that is not a sw changes no data-memory word, and a lw from a
\* mapped aligned address gives rd what the last store to that word stored.
C17_LoadStep ==
    Fetching =>
        /\ SubSeq(Fetched, 26, 32) \notin SType => Memory' = Memory
        /\ SubSeq(Fetched, 26, 32) = ITypeLw =>
              LET rd == Int2(SubSeq(Fetched, 21, 25))
                  Address ==
                      BinaryToDecimal(r[Int2(SubSeq(Fetched, 13, 17))])
                      + BinaryToDecimal(SubSeq(Fetched, 1, 12))
              IN  (/\ MemStart <= Address
                   /\ Address < MemStart + 4 * MemSize
                   /\ Address % 4 = 0)
                  => r' = [r EXCEPT
                              ![rd] = LastStored((Address - MemStart) \div 4)]

\* C17 (mapped store/load round trip): for a 4-aligned address A in
\* [MemStart, MemStart + 4 * MemSize), a lw from A yields the 32-bit value
\* rs2 held at the last sw to A, whatever ran in between; each data-memory
\* word holds the value of the last sw that landed on it, or 0 if none
\* did, and no instruction other than sw changes data memory.
C17_MappedRoundTrip == [](C17_MemoryIsLastStore) /\ [][C17_LoadStep]_vars

\* -3 stored at MemStart, then x1 changed and stored in the next word; the
\* load from MemStart returns -3.
C17_Witness ==
    /\ Instructions =
          RoundTripProgram(32, << Addi(1, 1, 1), Sw(4, 4, 36) >>, 32)
    /\ loc = "for" /\ Len(results) = Len(Instructions)
    /\ BinaryToDecimal(r[6]) = -3
    /\ BinaryToDecimal(r[1]) = -2
    /\ BinaryToDecimal(Memory[1]) = MemStart - 32

\* The loop runs exactly while 0 <= floor(PC / 4) < n, and an iteration
\* executes the word at index floor(PC / 4) of the program.
C18_FetchStep ==
    /\ (loc = "while" /\ ~Halt) =>
          LET index == (PC - (PC % 4)) \div 4
          IN  IF 0 <= index /\ index < Len(Instructions)
              THEN LET out == ExecuteInstruction(Instructions[index + 1],
                                                 PC, r, Memory)
                   IN  IF out.raised THEN loc' = "raised"
                       ELSE /\ loc' = "while"
                            /\ PC' = out.PC /\ r' = out.r
                            /\ Memory' = out.Memory /\ Halt' = out.Halt
                            /\ results' =
                                  Append(results, GetRegisterDump(out.PC, out.r))
              ELSE loc' = "for" /\ results' = results

\* C18 (even pc): in every state reachable from PC = 0 by any program PC is
\* even, branch and jump offsets having an implicit trailing zero bit and
\* jalr clearing bit 0, and the word fetched at each step is the one at
\* index floor(PC / 4) of the program.
C18_EvenPcFetch == [](PC % 2 = 0) /\ [][C18_FetchStep]_vars

\* The last step recorded was taken from a program counter that is 2
\* modulo 4, and it ran the word at floor(PC / 4): a plain word, PC + 4.
C18_Witness ==
    /\ loc = "while" /\ Len(results) >= 2
    /\ PcBefore(Len(results)) % 4 = 2
    /\ WordAt(Len(results)) = Addi(1, 0, 5)
    /\ PC = PcBefore(Len(results)) + 4
    /\ BinaryToDecimal(r[1]) = 5

\* A jalr step whose rd is its rs1 and is not x0.
C19_JalrSameStep ==
    (/\ Fetching
     /\ SubSeq(Fetched, 26, 32) = ITypeJalr
     /\ SubSeq(Fetched, 21, 25) = SubSeq(Fetched, 13, 17)
     /\ SubSeq(Fetched, 21, 25) # Reg(0)) =>
        LET rd == Int2(SubSeq(Fetched, 21, 25))
            sum == BinaryToDecimal(r[rd]) + BinaryToDecimal(SubSeq(Fetched, 1, 12))
        IN  /\ BinaryToDecimal(r'[rd]) = PC + 4
            /\ \A i \in RegIdx \ {rd} : r'[i] = r[i]
            /\ PC' = IF sum % 2 = 0 THEN sum ELSE sum - 1

\* C19 (jalr with rd = rs1, rd # 0): the jump target is computed from the
\* value rs1 held before the instruction, not from the link value just
\* written to rd: after the step rd = old PC + 4 and PC = (old rs1 + imm)
\* with bit 0 cleared.
C19_JalrSameRegister == [][C19_JalrSameStep]_vars

\* jalr x1, x1, -8 at PC = 4 with x1 = 12: PC = 4 (from the link value 8 it
\* would be 0) and x1 = 8.
C19_Witness ==
    /\ Instructions = JalrSameProgram(1, 12, -8)
    /\ loc = "while" /\ Len(results) = 2
    /\ PC = 4 /\ BinaryToDecimal(r[1]) = 8

\* In a run of a forward-only program of n words at most 2 * n steps are
\* taken: PC is at least twice the number of steps, and a step is taken
\* only below 4 * n (the step cap of the model never binds).
C20_StepsBounded ==
    (loc # "for" \/ Instructions # << >>) =>
        /\ loc # "raised"
        /\ Len(results) <= 2 * Len(Instructions)
        /\ ~Halt => PC >= 2 * Len(results)
        /\ Fetching => Len(results) < MaxSteps
\* Every iteration records a line and, unless it halts, moves PC forward by
\* at least 2; it halts exactly when it fetched the sentinel; the loop is
\* left only after a halt or with floor(PC / 4) outside [0, n).
C20_Forward ==
    /\ Fetching =>
          /\ loc' = "while"
          /\ Len(results') = Len(results) + 1
          /\ Halt' <=> Fetched = HaltInst
          /\ ~Halt' => PC' >= PC + 2
    /\ loc = "while" /\ ~Fetching => loc' = "for" /\ results' = results
    /\ loc = "while" /\ loc' = "for" =>
          \/ Halt /\ WordAt(Len(results)) = HaltInst
          \/ PC \div 4 < 0
          \/ PC \div 4 >= Len(Instructions)

\* C20 (forward-only termination): for a program of n words with no jalr
\* and every B-type and J-type offset strictly positive, the run loop
\* started from reset stops after at most 2 * n executed steps, each step
\* that does not halt moving PC forward; the loop stops only when the
\* sentinel was fetched or floor(PC / 4) is outside [0, n).
C20_ForwardTermination == [](C20_StepsBounded) /\ [][C20_Forward]_vars

\* A program of the greatest length, every word jal x0, +2, has run its
\* 2 * n steps and left the loop with PC = 4 * n.
C20_Witness ==
    /\ Instructions = [i \in 1 .. MaxProgLen |-> Jal(0, 2)]
    /\ loc = "for" /\ ~Halt
    /\ Len(results) = 2 * MaxProgLen
    /\ PC = 4 * MaxProgLen

====
